---- MODULE Spec2Model ----
(***************************************************************************)
(* Model of the streaming chat endpoint src/app/api/chat/route.ts (POST,   *)
(* lines 185-305): request validation, assembly of the engine input from   *)
(* the client-supplied history, the relay of the engine's text increments  *)
(* as server-sent events, and the catch/finally of the stream's start();    *)
(* of the blocking endpoint src/unnamed/part_000 (POST, lines 42-126); and *)
(* of the chat panel src/unnamed/part_001 (CustomChatPanel, lines 37-202)  *)
(* that sends its transcript as the history and reads the event stream.    *)
(*                                                                         *)
(* Texts are strings.  An optional JSON field is a sequence of length at   *)
(* most one: <<>> when the field is absent (undefined), <<v>> when set.    *)
(***************************************************************************)
EXTENDS Integers, Sequences, FiniteSets, TLC

\* ------------------------------------------------------------- bounds ---
\* Longest increment sequence the engine produces in one run.
MaxIncrements == 2
\* Number of requests handled in one behaviour.
MaxRequests == 2
\* Longest client-supplied history of the assembly specification.
MaxHistoryLen == 11
\* Longest history of the assembly specification with arbitrary entries.
MaxArbitraryLen == 2
\* Messages one chat panel sends in one behaviour.
MaxSends == 2
\* Clicks on "New Chat" in one behaviour.
MaxClears == 1
\* Page reloads in one behaviour.
MaxReloads == 1
\* Events one read of the response body carries at most.
MaxRead == 2
\* Longest response body of the reader specification, in events.
MaxStreamLen == 3
\* The documented history cap ("Keep last 10 messages").
MAX_HISTORY_LENGTH == 10

\* ------------------------------------------------------------- values ---
Chunks == {"a", "b"}
UserTexts == {"m1", "m2"}
Sessions == {"s1", "s2"}
\* What the user types into the input field; Trim is input.trim() on these.
Typed == {"", " ", "m1", " m2 "}
Trim(t) == IF t = " " THEN "" ELSE IF t = " m2 " THEN "m2" ELSE t
\* uuidv4(): the n-th identifier generated, different from all before it.
Uuid(n) == "u" \o ToString(n)

RECURSIVE SeqsUpTo(_, _)
\* All sequences over S of length at most n.
SeqsUpTo(S, n) ==
  IF n = 0 THEN {<<>>}
  ELSE LET shorter == SeqsUpTo(S, n - 1)
       IN  shorter \cup {Append(s, x) : s \in {t \in shorter : Len(t) = n - 1}, x \in S}

RECURSIVE Concat(_)
\* Concatenation of a sequence of texts.
Concat(texts) ==
  IF texts = <<>> THEN "" ELSE texts[1] \o Concat(Tail(texts))

\* A history entry as the client sends it: { role, content }.
Msg(r, c) == [role |-> r, content |-> c]

\* An array slot that holds no message: the hole a write past the end of a
\* JavaScript array leaves, and the null JSON.stringify writes for a hole.
\* Reading .role of a hole gives undefined; reading .role of null throws.
Hole == Msg("(hole)", "")
Null == Msg("(null)", "")
\* The undefined a spread copy [...prev] holds where prev has a hole.
Undefined == Msg("(undefined)", "")

\* History of n entries alternating user, assistant, with pairwise distinct
\* texts "t1", "t2", ...
AltHistory(n) ==
  [i \in 1..n |-> Msg(IF i % 2 = 1 THEN "user" ELSE "assistant", "t" \o ToString(i))]

\* Histories of the assembly specification: the alternating ones up to
\* MaxHistoryLen, and every short sequence of entries, among them entries
\* with an empty text, repeated entries and a role that is neither user
\* nor assistant.
Entries == {Msg(r, c) : r \in {"user", "assistant", "system"}, c \in {"", "t1"}}

\* Histories of the relay specification: short ones, among them an entry
\* with an empty text and an entry whose role is neither user nor assistant.
RelayHistories ==
  { <<>>,
    <<Msg("user", "m1"), Msg("assistant", "r1")>>,
    <<Msg("user", ""), Msg("system", "x"), Msg("assistant", "r1")>>,
    <<Null, Msg("assistant", "r1")>> }

\* Request bodies: one that is no JSON, the JSON value null, and objects.
Object(i, s, h) ==
  [kind |-> "object", input_as_text |-> i, session_id |-> s, history |-> h]
Unparseable == [kind |-> "unparseable", input_as_text |-> <<>>,
                session_id |-> <<>>, history |-> <<>>]
JsonNull == [kind |-> "null", input_as_text |-> <<>>,
             session_id |-> <<>>, history |-> <<>>]

Opt(S) == {<<>>} \cup {<<x>> : x \in S}

Bodies ==
  {Unparseable, JsonNull}
    \cup {Object(i, s, h) : i \in Opt(UserTexts \cup {""}),
                            s \in Opt(Sessions),
                            h \in Opt(RelayHistories)}

AssembleBodies ==
  {Object(<<i>>, <<"s1">>, h) :
      i \in UserTexts,
      h \in Opt({AltHistory(n) : n \in 0..MaxHistoryLen}
                  \cup SeqsUpTo(Entries, MaxArbitraryLen))}

\* What the engine or the platform can throw: an Error with a message, or
\* a value that is no Error.
Throwables ==
  { [isError |-> TRUE, message |-> "engine failed"],
    [isError |-> FALSE, message |-> "raw"] }
SyntaxError == [isError |-> TRUE, message |-> "Unexpected token in JSON"]
TypeError == [isError |-> TRUE, message |-> "Cannot destructure null"]
NullRoleError == [isError |-> TRUE, message |-> "Cannot read properties of null"]
EnqueueError == [isError |-> TRUE, message |-> "Controller is already closed"]

\* --------------------------------------------------------------- state ---
VARIABLES
  pc,                   \* position of the handler
  req,                  \* body of the request being handled
  nreq,                 \* number of requests received
  response,             \* the HTTP response returned for req
  conversationHistory,  \* the AgentInputItem list built for req
  engineInput,          \* <<>> or <<input>>: the input runner.run received
  engine,               \* the engine's run: increments, failure, final output
  consumed,             \* number of increments pulled from toTextStream()
  stream,               \* events enqueued on the controller
  channel,              \* "none", "open", "closed" or "cancelled"
  caught,               \* <<>> or <<e>>: the exception the catch received
  escaped,              \* an exception left start()
  completed,            \* log, per session_id carried: the user texts of the
                        \* requests that ended without an exception
  optionsResponse,      \* the response to the last OPTIONS request
  \* The chat panel (CustomChatPanel) and its browser.
  phase,                \* "initial" (first render, effects not yet run),
                        \* "hydrating", "ready" or "crashed" (render threw)
  messages,             \* useState: the transcript
  isLoading,            \* useState
  sessionId,            \* useState
  storage,              \* localStorage: chat_session_id and chat_messages
  uuids,                \* number of identifiers uuidv4() has generated
  cpc,                  \* position of sendMessage: "idle", "fetching",
                        \* "awaiting" or "reading"
  sent,                 \* the body sendMessage gave to fetch
  assistantMessageIndex, \* const of sendMessage (0-based)
  fullText,             \* let of sendMessage
  rpos,                 \* number of events of the stream the reader has taken
  received,             \* log: the events the read loop has handled
  okTurns,              \* log: user texts of the turns of this session that
                        \* ended with a successful generation
  badTurns,             \* log: how each other turn of this session ended
  outcome,              \* log: how the last send ended: "none" while it
                        \* has not, "done" (the stream was read to its
                        \* end) or "failed" (the outer catch ran)
  nsend, nclear, nreload \* counters of the user's actions

serverVars == <<pc, req, nreq, response, conversationHistory, engineInput, engine,
                consumed, stream, channel, caught, escaped, completed>>
clientVars == <<phase, messages, isLoading, sessionId, storage, uuids, cpc, sent,
                assistantMessageIndex, fullText, rpos, received, okTurns,
                badTurns, outcome, nsend, nclear, nreload>>
vars == <<pc, req, nreq, response, conversationHistory, engineInput, engine,
          consumed, stream, channel, caught, escaped, completed,
          optionsResponse, clientVars>>

NoRequest == Object(<<>>, <<>>, <<>>)
NoResponse == [status |-> 0, body |-> [error |-> ""], headers |-> {}]
\* No run yet; thrown is a placeholder that is read only when failAt # "none".
NoEngine ==
  [incs |-> <<>>, failAt |-> "none", thrown |-> [isError |-> TRUE, message |-> ""],
   finalOutput |-> ""]
\* Nothing has completed yet, under any session_id a request can carry.
NoneCompleted ==
  [s \in Opt(Sessions \cup {""} \cup {Uuid(n) : n \in 1..(MaxClears + MaxReloads + 2)}) |-> {}]

EmptyStorage == [chat_session_id |-> <<>>, chat_messages |-> <<>>]

\* The panel after its first render in a browser with an empty localStorage.
ClientInit ==
  /\ phase = "initial"
  /\ messages = <<>>
  /\ isLoading = FALSE
  /\ sessionId = ""
  /\ storage = EmptyStorage
  /\ uuids = 0
  /\ cpc = "idle"
  /\ sent = NoRequest
  /\ assistantMessageIndex = 0
  /\ fullText = ""
  /\ rpos = 0
  /\ received = <<>>
  /\ okTurns = <<>>
  /\ badTurns = <<>>
  /\ outcome = "none"
  /\ nsend = 0
  /\ nclear = 0
  /\ nreload = 0

Init ==
  /\ ClientInit
  /\ optionsResponse = NoResponse
  /\ pc = "idle"
  /\ req = NoRequest
  /\ nreq = 0
  /\ response = NoResponse
  /\ conversationHistory = <<>>
  /\ engineInput = <<>>
  /\ engine = NoEngine
  /\ consumed = 0
  /\ stream = <<>>
  /\ channel = "none"
  /\ caught = <<>>
  /\ escaped = FALSE
  /\ completed = NoneCompleted


\* ------------------------------------------------- request validation ---
\* A value the code's `!input_as_text` takes for false: absent or "".
\* (mutant: only an absent field is rejected)
FalsyUndefinedOnly(opt) == opt = <<>>

Falsy(opt) == opt = <<>> \/ opt[1] = ""

\* error instanceof Error ? error.message : "Unknown error"
ErrorMessage(e) == IF e.isError THEN e.message ELSE "Unknown error"

\* Response headers, as name-value pairs.
JsonType == <<"Content-Type", "application/json">>
AllowOrigin == <<"Access-Control-Allow-Origin", "*">>
AllowMethods == <<"Access-Control-Allow-Methods", "POST, OPTIONS">>
AllowHeaders == <<"Access-Control-Allow-Headers", "Content-Type">>

BadRequest ==
  [status |-> 400, body |-> [error |-> "input_as_text is required"],
   headers |-> {JsonType}]
ServerError(e) ==
  [status |-> 500,
   body |-> [error |-> "Internal server error", details |-> ErrorMessage(e)],
   headers |-> {JsonType, AllowOrigin}]
EventStream ==
  [status |-> 200, body |-> [stream |-> TRUE],
   headers |-> {<<"Content-Type", "text/event-stream">>, <<"Cache-Control", "no-cache">>,
                <<"Connection", "keep-alive">>, AllowOrigin, AllowMethods, AllowHeaders}]
\* OPTIONS, lines 307-316.
Preflight ==
  [status |-> 200, body |-> [empty |-> TRUE],
   headers |-> {AllowOrigin, AllowMethods, AllowHeaders}]

\* ------------------------------------------------- history assembly ---
UserItem(text) ==
  [role |-> "user", content |-> <<[type |-> "input_text", text |-> text]>>]
AssistantItem(text) ==
  [role |-> "assistant", status |-> "completed",
   content |-> <<[type |-> "output_text", text |-> text]>>]

\* (mutant: an entry with an empty content is skipped)
ConvertMsgSkipEmpty(msg) ==
  IF msg.content = "" THEN <<>>
  ELSE IF msg.role = "user" THEN <<UserItem(msg.content)>>
  ELSE IF msg.role = "assistant" THEN <<AssistantItem(msg.content)>>
  ELSE <<>>

\* One pass of the loop body over a history entry: the items it pushes.
ConvertMsg(msg) ==
  IF msg.role = "user" THEN <<UserItem(msg.content)>>
  ELSE IF msg.role = "assistant" THEN <<AssistantItem(msg.content)>>
  ELSE <<>>

RECURSIVE ConvertAll(_)
\* for (const msg of history) { ... }
ConvertAll(h) ==
  IF h = <<>> THEN <<>> ELSE ConvertMsg(h[1]) \o ConvertAll(Tail(h))

\* (mutant: the handler keeps one history for all sessions and puts what the
\* other sessions completed in front of the request's own messages)
SharedConversationHistory(body) ==
  LET others == UNION {completed[s] : s \in DOMAIN completed \ {body.session_id}}
      h == IF body.history # <<>> /\ Len(body.history[1]) > 0
           THEN body.history[1] ELSE <<>>
  IN  (IF others = {} THEN <<>> ELSE <<UserItem(CHOOSE t \in others : TRUE)>>)
        \o ConvertAll(h) \o <<UserItem(body.input_as_text[1])>>

\* The conversationHistory the handler builds for a validated body.
BuildConversationHistory(body) ==
  LET h == IF body.history # <<>> /\ Len(body.history[1]) > 0
           THEN body.history[1] ELSE <<>>
  IN  ConvertAll(h) \o <<UserItem(body.input_as_text[1])>>

\* ------------------------------------------------------- stream events ---
TextChunk(t) == [type |-> "text_chunk", text |-> t]
Final(t) == [type |-> "final", output_text |-> t]
ErrorEvent(m) == [type |-> "error", error |-> m]
DONE == [type |-> "[DONE]"]

\* The runs the engine can make: it throws on invocation, or it yields
\* increments and then ends, throws during iteration, or rejects completed.
EngineRuns ==
  {[incs |-> <<>>, failAt |-> "invoke", thrown |-> e, finalOutput |-> ""] :
      e \in Throwables}
  \cup
  {[incs |-> i, failAt |-> f, thrown |-> e, finalOutput |-> ""] :
      i \in SeqsUpTo(Chunks, MaxIncrements), f \in {"iter", "completed"},
      e \in Throwables}
  \cup
  UNION {{[incs |-> i, failAt |-> "none", thrown |-> NoEngine.thrown, finalOutput |-> o] :
             o \in {"", Concat(i), "F"}} : i \in SeqsUpTo(Chunks, MaxIncrements)}

\* ------------------------------------------------------------- actions ---
\* POST, lines 185-200 and 280-304: parse, validate, open the stream.
POST(body) ==
  /\ pc \in {"idle", "responded", "end"}
  /\ nreq < MaxRequests
  /\ nreq' = nreq + 1
  /\ req' = body
  /\ conversationHistory' = <<>>
  /\ engineInput' = <<>>
  /\ engine' = NoEngine
  /\ consumed' = 0
  /\ stream' = <<>>
  /\ caught' = <<>>
  /\ escaped' = FALSE
  /\ UNCHANGED completed
  /\ IF body.kind = "unparseable"
     THEN /\ response' = ServerError(SyntaxError)
          /\ pc' = "responded"
          /\ channel' = "none"
     ELSE IF body.kind = "null"
     THEN /\ response' = ServerError(TypeError)
          /\ pc' = "responded"
          /\ channel' = "none"
     ELSE IF Falsy(body.input_as_text)
     THEN /\ response' = BadRequest
          /\ pc' = "responded"
          /\ channel' = "none"
     ELSE /\ response' = EventStream
          /\ pc' = "assemble"
          /\ channel' = "open"

\* start(), lines 205-229: build conversationHistory.
\* Reading msg.role throws when a history entry is null.
BuildHistory ==
  /\ pc = "assemble"
  /\ IF req.history # <<>> /\ \E i \in 1..Len(req.history[1]) : req.history[1][i] = Null
     THEN LET h == req.history[1]
              n == CHOOSE i \in 1..Len(h) :
                     h[i] = Null /\ \A j \in 1..(i - 1) : h[j] # Null
          IN  /\ conversationHistory' = ConvertAll(SubSeq(h, 1, n - 1))
              /\ caught' = <<NullRoleError>>
              /\ pc' = "catch"
     ELSE /\ conversationHistory' = BuildConversationHistory(req)
          /\ pc' = "invoke"
          /\ UNCHANGED caught
  /\ UNCHANGED <<req, nreq, response, engineInput, engine, consumed, stream,
                 channel, escaped, completed>>

\* lines 231-243: await runner.run(myAgent, [...conversationHistory], {stream}).
Invoke(run) ==
  /\ pc = "invoke"
  /\ engineInput' = <<conversationHistory>>
  /\ IF run.failAt = "invoke"
     THEN /\ caught' = <<run.thrown>>
          /\ pc' = "catch"
          /\ UNCHANGED engine
     ELSE /\ engine' = run
          /\ pc' = "streaming"
          /\ UNCHANGED caught
  /\ UNCHANGED <<req, nreq, response, conversationHistory, consumed, stream,
                 channel, escaped, completed>>

\* (mutant: the relay sends the text accumulated so far with every increment)
ChunkEventAccumulated(incs, k) == TextChunk(Concat(SubSeq(incs, 1, k)))

\* The event sent for the k-th increment, lines 248-251.
ChunkEvent(incs, k) == TextChunk(incs[k])

\* One turn of `for await (const textChunk of streamedResult.toTextStream())`,
\* lines 246-253.  enqueue throws once the consumer has cancelled.
NextChunk ==
  /\ pc = "streaming"
  /\ IF consumed < Len(engine.incs)
     THEN /\ consumed' = consumed + 1
          /\ IF channel = "open"
             THEN /\ stream' = Append(stream, ChunkEvent(engine.incs, consumed + 1))
                  /\ UNCHANGED <<pc, caught>>
             ELSE /\ caught' = <<EnqueueError>>
                  /\ pc' = "catch"
                  /\ UNCHANGED stream
     ELSE IF engine.failAt = "iter"
     THEN /\ caught' = <<engine.thrown>>
          /\ pc' = "catch"
          /\ UNCHANGED <<consumed, stream>>
     ELSE /\ pc' = "completing"
          /\ UNCHANGED <<consumed, stream, caught>>
  /\ UNCHANGED <<req, nreq, response, conversationHistory, engineInput, engine,
                 channel, escaped, completed>>

\* line 256: await streamedResult.completed.
AwaitCompleted ==
  /\ pc = "completing"
  /\ IF engine.failAt = "completed"
     THEN /\ caught' = <<engine.thrown>>
          /\ pc' = "catch"
     ELSE /\ pc' = "final"
          /\ UNCHANGED caught
  /\ UNCHANGED <<req, nreq, response, conversationHistory, engineInput, engine,
                 consumed, stream, channel, escaped, completed>>

\* (mutant: the sentinel is written before the final event)
EmitFinalAfterSentinel ==
  /\ pc = "final"
  /\ IF engine.finalOutput = ""
     THEN /\ pc' = "done"
          /\ UNCHANGED <<stream, caught>>
     ELSE IF channel = "open"
     THEN /\ stream' = stream \o <<DONE, Final(engine.finalOutput)>>
          /\ pc' = "done"
          /\ UNCHANGED caught
     ELSE /\ caught' = <<EnqueueError>>
          /\ pc' = "catch"
          /\ UNCHANGED stream
  /\ UNCHANGED <<req, nreq, response, conversationHistory, engineInput, engine,
                 consumed, channel, escaped, completed>>

\* lines 259-265: if (streamedResult.finalOutput) enqueue the final event.
EmitFinal ==
  /\ pc = "final"
  /\ IF engine.finalOutput = ""
     THEN /\ pc' = "done"
          /\ UNCHANGED <<stream, caught>>
     ELSE IF channel = "open"
     THEN /\ stream' = Append(stream, Final(engine.finalOutput))
          /\ pc' = "done"
          /\ UNCHANGED caught
     ELSE /\ caught' = <<EnqueueError>>
          /\ pc' = "catch"
          /\ UNCHANGED stream
  /\ UNCHANGED <<req, nreq, response, conversationHistory, engineInput, engine,
                 consumed, channel, escaped, completed>>

\* (mutant: the sentinel is written only after a final event)
EmitDoneAfterFinalOnly ==
  /\ pc = "done"
  /\ IF engine.finalOutput = ""
     THEN /\ pc' = "finally"
          /\ UNCHANGED <<stream, caught>>
     ELSE IF channel = "open"
     THEN /\ stream' = Append(stream, DONE)
          /\ pc' = "finally"
          /\ UNCHANGED caught
     ELSE /\ caught' = <<EnqueueError>>
          /\ pc' = "catch"
          /\ UNCHANGED stream
  /\ UNCHANGED <<req, nreq, response, conversationHistory, engineInput, engine,
                 consumed, channel, escaped, completed>>

\* line 267: enqueue 'data: [DONE]\n\n'; withTrace then resolves.
EmitDone ==
  /\ pc = "done"
  /\ IF channel = "open"
     THEN /\ stream' = Append(stream, DONE)
          /\ pc' = "finally"
          /\ UNCHANGED caught
     ELSE /\ caught' = <<EnqueueError>>
          /\ pc' = "catch"
          /\ UNCHANGED stream
  /\ UNCHANGED <<req, nreq, response, conversationHistory, engineInput, engine,
                 consumed, channel, escaped, completed>>

\* lines 269-273: the catch block enqueues one error event; when that
\* enqueue throws, the exception leaves the catch block.
Catch ==
  /\ pc = "catch"
  /\ IF channel = "open"
     THEN /\ stream' = Append(stream, ErrorEvent(ErrorMessage(caught[1])))
          /\ UNCHANGED escaped
     ELSE /\ escaped' = TRUE
          /\ UNCHANGED stream
  /\ pc' = "finally"
  /\ UNCHANGED <<req, nreq, response, conversationHistory, engineInput, engine,
                 consumed, channel, caught, completed>>

\* lines 274-276: controller.close(); it throws when the stream is no
\* longer open.  A request that ends without an exception has completed.
Finally ==
  /\ pc = "finally"
  /\ IF channel = "open"
     THEN /\ channel' = "closed"
          /\ UNCHANGED escaped
     ELSE /\ escaped' = TRUE
          /\ UNCHANGED channel
  /\ completed' =
       IF caught = <<>>
       THEN [completed EXCEPT ![req.session_id] = @ \cup {req.input_as_text[1]}]
       ELSE completed
  /\ pc' = "end"
  /\ UNCHANGED <<req, nreq, response, conversationHistory, engineInput, engine,
                 consumed, stream, caught>>

\* Where start() waits for something outside it, so that a cancellation
\* can come in: for runner.run (line 239), for the next increment (line
\* 246), for completed (line 256) and for withTrace to resolve (line 231).
\* The statements between two of these run without interruption.
CancelPoint ==
  \/ pc \in {"invoke", "streaming", "completing"}
  \/ pc = "finally" /\ caught = <<>>

\* The client abandons the connection: the stream is cancelled (the source
\* object of line 201 has no cancel callback).
Cancel ==
  /\ channel = "open"
  /\ CancelPoint
  /\ channel' = "cancelled"
  /\ UNCHANGED <<pc, req, nreq, response, conversationHistory, engineInput,
                 engine, consumed, stream, caught, escaped, completed>>

\* OPTIONS, lines 307-316.
OPTIONS ==
  /\ optionsResponse' = Preflight
  /\ UNCHANGED <<serverVars, clientVars>>

\* A step of the streaming handler leaves the rest of the system alone.
Alone == UNCHANGED <<optionsResponse, clientVars>>

Next ==
  \/ \E body \in Bodies : POST(body) /\ Alone
  \/ BuildHistory /\ Alone
  \/ \E run \in EngineRuns : Invoke(run) /\ Alone
  \/ NextChunk /\ Alone
  \/ AwaitCompleted /\ Alone
  \/ EmitFinal /\ Alone
  \/ EmitDone /\ Alone
  \/ Catch /\ Alone
  \/ Finally /\ Alone
  \/ Cancel /\ Alone
  \/ OPTIONS

Spec == Init /\ [][Next]_vars

\* The assembly of the engine input on its own: the handler has accepted a
\* body whose history is drawn from AssembleBodies, builds the input and
\* hands it to the engine.
InitAssemble ==
  /\ ClientInit
  /\ optionsResponse = NoResponse
  /\ pc = "assemble"
  /\ req \in AssembleBodies
  /\ nreq = 1
  /\ response = EventStream
  /\ conversationHistory = <<>>
  /\ engineInput = <<>>
  /\ engine = NoEngine
  /\ consumed = 0
  /\ stream = <<>>
  /\ channel = "open"
  /\ caught = <<>>
  /\ escaped = FALSE
  /\ completed = NoneCompleted

NextAssemble ==
  \/ BuildHistory /\ Alone
  \/ \E run \in EngineRuns : Invoke(run) /\ Alone

SpecAssemble == InitAssemble /\ [][NextAssemble]_vars

\* ------------------------------------------- the non-streaming endpoint ---
\* src/unnamed/part_000, POST (lines 42-125): the handler that answers with
\* one JSON body.  It reads input_as_text only.
AgentResultError == [isError |-> TRUE, message |-> "Agent result is undefined"]

\* process.env.NODE_ENV
NodeEnvs == {"development", "production"}

\* The outcomes of runner.run(myAgent, [...conversationHistory]): it throws,
\* or resolves with a finalOutput that is absent, empty or a text.
BlockingRuns ==
  {[failAt |-> "run", thrown |-> e, finalOutput |-> <<>>] : e \in Throwables}
  \cup
  {[failAt |-> "none", thrown |-> NoEngine.thrown, finalOutput |-> o] :
      o \in Opt({"", "F", "ab"})}

\* The response of the outer catch, lines 108-125: the stack field is left
\* out of the JSON unless NODE_ENV is development.
BlockingError(e, env) ==
  [status |-> 500,
   body |-> [error |-> "Internal server error", details |-> ErrorMessage(e),
             stack |-> IF env = "development"
                       THEN <<IF e.isError THEN "stack" ELSE "">> ELSE <<>>],
   headers |-> {JsonType, AllowOrigin}]

\* lines 92-100.
BlockingOk(text) ==
  [status |-> 200, body |-> [output_text |-> text],
   headers |-> {JsonType, AllowOrigin, AllowMethods, AllowHeaders}]

\* (mutant: only an absent finalOutput is refused)
UnusableAbsentOnly(out) == out = <<>>

\* line 85: if (!myAgentResultTemp.finalOutput)
Unusable(out) == out = <<>> \/ out[1] = ""

\* lines 42-54: parse and validate.
BlockingPOST(body, env) ==
  /\ pc \in {"idle", "responded"}
  /\ nreq < MaxRequests
  /\ nreq' = nreq + 1
  /\ req' = body
  /\ engineInput' = <<>>
  /\ engine' = NoEngine
  /\ caught' = <<>>
  /\ IF body.kind = "unparseable"
     THEN /\ response' = BlockingError(SyntaxError, env)
          /\ pc' = "responded"
     ELSE IF body.kind = "null"
     THEN /\ response' = BlockingError(TypeError, env)
          /\ pc' = "responded"
     ELSE IF Falsy(body.input_as_text)
     THEN /\ response' = BadRequest
          /\ pc' = "responded"
     ELSE /\ response' = NoResponse
          /\ pc' = "running"
  /\ UNCHANGED <<conversationHistory, consumed, stream, channel, escaped,
                 completed, optionsResponse, clientVars>>

\* lines 56-125: run the agent and answer.
BlockingRun(run, env) ==
  /\ pc = "running"
  /\ conversationHistory' = <<UserItem(req.input_as_text[1])>>
  /\ engineInput' = <<conversationHistory'>>
  /\ engine' = run
  /\ IF run.failAt = "run"
     THEN /\ caught' = <<run.thrown>>
          /\ response' = BlockingError(run.thrown, env)
     ELSE IF Unusable(run.finalOutput)
     THEN /\ caught' = <<AgentResultError>>
          /\ response' = BlockingError(AgentResultError, env)
     ELSE /\ response' = BlockingOk(run.finalOutput[1])
          /\ UNCHANGED caught
  /\ pc' = "responded"
  /\ UNCHANGED <<req, nreq, consumed, stream, channel, escaped, completed,
                 optionsResponse, clientVars>>

NextBlocking ==
  \/ \E body \in Bodies, env \in NodeEnvs : BlockingPOST(body, env)
  \/ \E run \in BlockingRuns, env \in NodeEnvs : BlockingRun(run, env)
  \/ OPTIONS

SpecBlocking == Init /\ [][NextBlocking]_vars

\* ------------------------------------------------------ the chat panel ---
\* src/unnamed/part_001, CustomChatPanel, lines 36-203, in a browser, and
\* the streaming handler it talks to.  A handler of the panel runs on the
\* state of the latest render.
SorryText == "Sorry, I encountered an error. Please try again."
NoResponseText == "No response from agent."

Max(a, b) == IF a > b THEN a ELSE b

\* JSON.stringify(messages) read back by JSON.parse: an element that is a
\* hole or undefined comes back as null, every message comes back equal.
Stringify(msgs) ==
  [i \in 1..Len(msgs) |-> IF msgs[i] \in {Hole, Undefined} THEN Null ELSE msgs[i]]

\* [...prev]: the copy holds undefined where prev has a hole.
Spread(msgs) ==
  [i \in 1..Len(msgs) |-> IF msgs[i] = Hole THEN Undefined ELSE msgs[i]]

\* newMessages[idx] = m, idx counted from 0: a write past the end leaves
\* holes between the old end and idx.
SetAt(msgs, idx, m) ==
  [i \in 1..Max(Len(msgs), idx + 1) |->
     IF i = idx + 1 THEN m ELSE IF i <= Len(msgs) THEN msgs[i] ELSE Hole]

\* setMessages(prev => [...prev, m])
AppendMessage(msgs, m) == Append(Spread(msgs), m)

\* The updater of lines 138-145, 151-158 and 172-179.
UpdateTracked(msgs, idx, text) == SetAt(Spread(msgs), idx, Msg("assistant", text))

\* messages.map(message => ... message.role ...), line 273: map skips a
\* hole and calls the function on undefined and on null, where reading
\* .role throws.
Renderable(msgs) == \A i \in 1..Len(msgs) : msgs[i] \notin {Undefined, Null}

\* The save effect, lines 66-70.
SaveEffect(msgs, st) ==
  IF Len(msgs) > 0 THEN [st EXCEPT !.chat_messages = <<Stringify(msgs)>>] ELSE st

\* A state update of messages, the render that follows and the save effect
\* after it.  A render that throws unmounts the panel: no effect runs and
\* later updates are dropped.
SetMessages(new) ==
  IF phase = "crashed"
  THEN UNCHANGED <<messages, storage, phase>>
  ELSE /\ messages' = new
       /\ IF Renderable(new)
          THEN /\ storage' = SaveEffect(new, storage)
               /\ UNCHANGED phase
          ELSE /\ phase' = "crashed"
               /\ UNCHANGED storage

\* setIsLoading(false) in finally, lines 190-192: like every update, it is
\* dropped when the panel is unmounted after a render that threw.
SetIsLoadingFalse(ph) == IF ph = "crashed" THEN isLoading ELSE FALSE

\* The session id the mount effect settles on, lines 46-51.
\* (mutant: a new identifier on every mount)
SessionIdAlwaysNew(st, n) == Uuid(n + 1)

SessionIdOnMount(st, n) ==
  IF st.chat_session_id # <<>> /\ st.chat_session_id[1] # ""
  THEN st.chat_session_id[1] ELSE Uuid(n + 1)

\* The effects after the first render, lines 45-70: settle the session id,
\* load the saved messages, and run the save effect on the messages of the
\* first render.
Mount ==
  /\ phase = "initial"
  /\ LET id == SessionIdOnMount(storage, uuids)
     IN  /\ sessionId' = id
         /\ uuids' = IF id = Uuid(uuids + 1) THEN uuids + 1 ELSE uuids
         /\ storage' = SaveEffect(messages, [storage EXCEPT !.chat_session_id = <<id>>])
  /\ messages' = IF storage.chat_messages # <<>> THEN storage.chat_messages[1]
                 ELSE messages
  /\ phase' = "hydrating"
  /\ UNCHANGED <<isLoading, cpc, sent, assistantMessageIndex, fullText, rpos,
                 received, okTurns, badTurns, outcome, nsend, nclear, nreload>>
  /\ UNCHANGED <<serverVars, optionsResponse>>

\* The render with the state the mount effect has set, and the save effect
\* after it.
Hydrate ==
  /\ phase = "hydrating"
  /\ IF Renderable(messages)
     THEN /\ phase' = "ready"
          /\ storage' = SaveEffect(messages, storage)
     ELSE /\ phase' = "crashed"
          /\ UNCHANGED storage
  /\ UNCHANGED <<messages, isLoading, sessionId, uuids, cpc, sent,
                 assistantMessageIndex, fullText, rpos, received, okTurns,
                 badTurns, outcome, nsend, nclear, nreload>>
  /\ UNCHANGED <<serverVars, optionsResponse>>

\* (mutant: the guard of sendMessage does not look at isLoading)
ReturnsEarlyIgnoringLoading(text, sid, loading) == Trim(text) = "" \/ sid = ""

\* line 78: if (!input.trim() || !sessionId || isLoading) return;
ReturnsEarly(text, sid, loading) == Trim(text) = "" \/ sid = "" \/ loading

\* sendMessage up to the fetch call, lines 77-98.  The body carries the
\* messages of the render the handler belongs to.  React renders the
\* updates of an event handler before the next event is handled, so the
\* handler of a later submit sees isLoading as this one set it.
Submit(text) ==
  /\ phase = "ready"
  /\ nsend < MaxSends
  /\ ~ReturnsEarly(text, sessionId, isLoading)
  /\ nsend' = nsend + 1
  /\ SetMessages(AppendMessage(messages, Msg("user", Trim(text))))
  /\ isLoading' = TRUE
  /\ sent' = Object(<<Trim(text)>>, <<sessionId>>, <<Stringify(messages)>>)
  /\ cpc' = "fetching"
  /\ received' = <<>>
  /\ outcome' = "none"
  /\ UNCHANGED <<sessionId, uuids, assistantMessageIndex, fullText, rpos,
                 okTurns, badTurns, nclear, nreload>>
  /\ UNCHANGED <<serverVars, optionsResponse>>

\* The request reaches the handler.
Fetch ==
  /\ cpc = "fetching"
  /\ POST(sent)
  /\ cpc' = "awaiting"
  /\ UNCHANGED <<phase, messages, isLoading, sessionId, storage, uuids, sent,
                 assistantMessageIndex, fullText, rpos, received, okTurns,
                 badTurns, outcome, nsend, nclear, nreload>>
  /\ UNCHANGED optionsResponse

\* The turn of the panel's session that is in flight ends without a
\* successful generation.  A request sent under an earlier session id is
\* no turn of the session.
TurnFailed(how) ==
  /\ badTurns' = IF sent.session_id = <<sessionId>> THEN Append(badTurns, how)
                 ELSE badTurns
  /\ UNCHANGED okTurns

\* The outer catch and finally, lines 181-192.
CatchAndFinally ==
  /\ SetMessages(AppendMessage(messages, Msg("assistant", SorryText)))
  /\ isLoading' = SetIsLoadingFalse(phase')
  /\ cpc' = "idle"
  /\ outcome' = "failed"
  /\ TurnFailed("request failed")

\* fetch rejects: the request never reaches the handler.
FetchFails ==
  /\ cpc = "fetching"
  /\ CatchAndFinally
  /\ UNCHANGED <<sessionId, uuids, sent, assistantMessageIndex, fullText, rpos,
                 received, nsend, nclear, nreload>>
  /\ UNCHANGED <<serverVars, optionsResponse>>

\* The response arrives, lines 100-116: a status that is not ok throws,
\* else the index is taken and the placeholder appended.
OnResponse ==
  /\ cpc = "awaiting"
  /\ IF response.status # 200
     THEN /\ CatchAndFinally
          /\ UNCHANGED <<assistantMessageIndex, fullText, rpos>>
     ELSE /\ assistantMessageIndex' = Len(sent.history[1]) + 1
          /\ SetMessages(AppendMessage(messages, Msg("assistant", "")))
          /\ fullText' = ""
          /\ rpos' = 0
          /\ cpc' = "reading"
          /\ UNCHANGED <<isLoading, okTurns, badTurns, outcome>>
  /\ UNCHANGED <<sessionId, uuids, sent, received, nsend, nclear, nreload>>
  /\ UNCHANGED <<serverVars, optionsResponse>>

\* (mutant: the text of the final event is added to the accumulator)
AfterFinalAppended(text, out) == text \o out

\* line 151: fullText = event.output_text || fullText
AfterFinal(text, out) == IF out # "" THEN out ELSE text

RECURSIVE HandleLines(_, _, _, _)
\* The for loop over the lines of one read, lines 126-167, on the events
\* the lines carry: the accumulator and the messages after it.  The
\* sentinel leaves the loop; the throw of the error branch is caught by the
\* catch of the same try.
HandleLines(events, text, msgs, idx) ==
  IF events = <<>> \/ events[1].type = "[DONE]"
  THEN [fullText |-> text, messages |-> msgs]
  ELSE IF events[1].type = "text_chunk"
  THEN HandleLines(Tail(events), text \o events[1].text,
                   UpdateTracked(msgs, idx, text \o events[1].text), idx)
  ELSE IF events[1].type = "final"
  THEN LET t == AfterFinal(text, events[1].output_text)
       IN  HandleLines(Tail(events), t, UpdateTracked(msgs, idx, t), idx)
  ELSE HandleLines(Tail(events), text, msgs, idx)

RECURSIVE Handled(_)
\* The events of one read that the loop handles: those up to the sentinel.
Handled(events) ==
  IF events = <<>> THEN <<>>
  ELSE IF events[1].type = "[DONE]" THEN <<DONE>>
  ELSE <<events[1]>> \o Handled(Tail(events))

\* One reader.read() that returns data, and the loop over its lines: the
\* read carries the next k events of the stream, the last of them cut by
\* the end of the read when `cut` holds.  The two parts of a cut line are
\* dropped: the first is not JSON, the second does not start with "data: ".
Read(k, cut) ==
  /\ cpc = "reading"
  /\ rpos + k <= Len(stream)
  /\ LET whole == SubSeq(stream, rpos + 1, rpos + k - (IF cut THEN 1 ELSE 0))
         after == HandleLines(whole, fullText, messages, assistantMessageIndex)
     IN  /\ fullText' = after.fullText
         /\ received' = received \o Handled(whole)
         /\ IF after.messages = messages
            THEN UNCHANGED <<messages, storage, phase>>
            ELSE SetMessages(after.messages)
  /\ rpos' = rpos + k
  /\ UNCHANGED <<isLoading, sessionId, uuids, cpc, sent, assistantMessageIndex,
                 okTurns, badTurns, outcome, nsend, nclear, nreload>>
  /\ UNCHANGED <<serverVars, optionsResponse>>

\* reader.read() returns done; lines 170-180 and 190-192.
ReadDone ==
  /\ cpc = "reading"
  /\ rpos = Len(stream)
  /\ channel = "closed"
  /\ IF fullText = ""
     THEN SetMessages(UpdateTracked(messages, assistantMessageIndex, NoResponseText))
     ELSE UNCHANGED <<messages, storage, phase>>
  /\ isLoading' = SetIsLoadingFalse(phase')
  /\ cpc' = "idle"
  /\ outcome' = "done"
  /\ IF sent.session_id # <<sessionId>>
     THEN UNCHANGED <<okTurns, badTurns>>
     ELSE IF caught = <<>>
     THEN /\ okTurns' = Append(okTurns, sent.input_as_text[1])
          /\ UNCHANGED badTurns
     ELSE TurnFailed("generation failed")
  /\ UNCHANGED <<sessionId, uuids, sent, assistantMessageIndex, fullText, rpos,
                 received, nsend, nclear, nreload>>
  /\ UNCHANGED <<serverVars, optionsResponse>>

\* The connection breaks: reader.read() rejects, and the handler's stream
\* is cancelled.
ReadFails ==
  /\ cpc = "reading"
  /\ channel = "open" => CancelPoint
  /\ channel' = IF channel = "open" THEN "cancelled" ELSE channel
  /\ CatchAndFinally
  /\ UNCHANGED <<sessionId, uuids, sent, assistantMessageIndex, fullText, rpos,
                 received, nsend, nclear, nreload>>
  /\ UNCHANGED <<pc, req, nreq, response, conversationHistory, engineInput,
                 engine, consumed, stream, caught, escaped, completed,
                 optionsResponse>>

\* clearChat, lines 195-202.
ClearChat ==
  /\ phase = "ready"
  /\ nclear < MaxClears
  /\ nclear' = nclear + 1
  /\ uuids' = uuids + 1
  /\ storage' = [chat_session_id |-> <<Uuid(uuids + 1)>>, chat_messages |-> <<>>]
  /\ sessionId' = Uuid(uuids + 1)
  /\ messages' = <<>>
  /\ okTurns' = <<>>
  /\ badTurns' = <<>>
  /\ UNCHANGED <<phase, isLoading, cpc, sent, assistantMessageIndex, fullText,
                 rpos, received, outcome, nsend, nreload>>
  /\ UNCHANGED <<serverVars, optionsResponse>>

\* The user reloads the page: the state of the component and a request in
\* flight are gone, localStorage stays.
Reload ==
  /\ nreload < MaxReloads
  /\ nreload' = nreload + 1
  /\ phase' = "initial"
  /\ messages' = <<>>
  /\ isLoading' = FALSE
  /\ sessionId' = ""
  /\ cpc' = "idle"
  /\ sent' = NoRequest
  /\ assistantMessageIndex' = 0
  /\ fullText' = ""
  /\ rpos' = 0
  /\ received' = <<>>
  /\ outcome' = "none"
  /\ IF cpc # "idle" THEN TurnFailed("request failed")
     ELSE UNCHANGED <<okTurns, badTurns>>
  /\ (cpc \in {"awaiting", "reading"} /\ channel = "open") => CancelPoint
  /\ channel' = IF cpc \in {"awaiting", "reading"} /\ channel = "open"
                THEN "cancelled" ELSE channel
  /\ UNCHANGED <<storage, uuids, nsend, nclear>>
  /\ UNCHANGED <<pc, req, nreq, response, conversationHistory, engineInput,
                 engine, consumed, stream, caught, escaped, completed,
                 optionsResponse>>

\* The runs of the engine behind the panel's requests.
ClientRuns ==
  {run \in EngineRuns :
     /\ run.incs \in {<<>>, <<"a">>, <<"a", "b">>}
     /\ run.failAt # "completed"
     /\ run.thrown.isError}

NextClient ==
  \/ Mount
  \/ Hydrate
  \/ \E text \in Typed : Submit(text)
  \/ Fetch
  \/ FetchFails
  \/ OnResponse
  \/ \E k \in 1..MaxRead, cut \in BOOLEAN : Read(k, cut)
  \/ ReadDone
  \/ ReadFails
  \/ ClearChat
  \/ Reload
  \/ BuildHistory /\ Alone
  \/ \E run \in ClientRuns : Invoke(run) /\ Alone
  \/ NextChunk /\ Alone
  \/ AwaitCompleted /\ Alone
  \/ EmitFinal /\ Alone
  \/ EmitDone /\ Alone
  \/ Catch /\ Alone
  \/ Finally /\ Alone

SpecClient == Init /\ [][NextClient]_vars

\* The panel without page reloads, with the steps that do not wait for the
\* user taken eventually: the fetch settles, the relay's handler and the
\* engine go on, every reader.read() settles and the stream ends.
Progress ==
  \/ Fetch
  \/ FetchFails
  \/ OnResponse
  \/ \E k \in 1..MaxRead, cut \in BOOLEAN : Read(k, cut)
  \/ ReadDone
  \/ ReadFails
  \/ BuildHistory /\ Alone
  \/ \E run \in ClientRuns : Invoke(run) /\ Alone
  \/ NextChunk /\ Alone
  \/ AwaitCompleted /\ Alone
  \/ EmitFinal /\ Alone
  \/ EmitDone /\ Alone
  \/ Catch /\ Alone
  \/ Finally /\ Alone

NextTurn ==
  \/ Mount
  \/ Hydrate
  \/ \E text \in Typed : Submit(text)
  \/ ClearChat
  \/ Progress

SpecTurn == Init /\ [][NextTurn]_vars /\ WF_vars(Progress)

\* The read loop on its own: the panel has sent "m1" in an empty
\* conversation, the response has arrived and the placeholder is shown; the
\* body of the response is any sequence of events, whatever endpoint or
\* proxy produced it, and is complete.
StreamEvents ==
  {TextChunk("a"), TextChunk("b"), Final("F"), Final(""), ErrorEvent("e"), DONE}

InitReader ==
  /\ phase = "ready"
  /\ messages = <<Msg("user", "m1"), Msg("assistant", "")>>
  /\ isLoading = TRUE
  /\ sessionId = Uuid(1)
  /\ storage = [chat_session_id |-> <<Uuid(1)>>,
                chat_messages |-> <<<<Msg("user", "m1"), Msg("assistant", "")>>>>]
  /\ uuids = 1
  /\ cpc = "reading"
  /\ sent = Object(<<"m1">>, <<Uuid(1)>>, <<<<>>>>)
  /\ assistantMessageIndex = 1
  /\ fullText = ""
  /\ rpos = 0
  /\ received = <<>>
  /\ okTurns = <<>>
  /\ badTurns = <<>>
  /\ outcome = "none"
  /\ nsend = 1
  /\ nclear = 0
  /\ nreload = 0
  /\ optionsResponse = NoResponse
  /\ pc = "end"
  /\ req = Object(<<"m1">>, <<Uuid(1)>>, <<<<>>>>)
  /\ nreq = 1
  /\ response = EventStream
  /\ conversationHistory = <<UserItem("m1")>>
  /\ engineInput = <<<<UserItem("m1")>>>>
  /\ engine = NoEngine
  /\ consumed = 0
  /\ stream \in SeqsUpTo(StreamEvents, MaxStreamLen)
  /\ channel = "closed"
  /\ caught = <<>>
  /\ escaped = FALSE
  /\ completed = NoneCompleted

NextReader ==
  \/ \E k \in 1..MaxRead, cut \in BOOLEAN : Read(k, cut)
  \/ ReadDone

SpecReader == InitReader /\ [][NextReader]_vars

\* ------------------------------------------------------------- claims ---
\* Positions of the events of a type in the stream.
Positions(type) == {i \in 1..Len(stream) : stream[i].type = type}

RECURSIVE ChunkTexts(_)
\* The text fields of the text_chunk events of s, in order.
ChunkTexts(s) ==
  IF s = <<>> THEN <<>>
  ELSE IF s[1].type = "text_chunk" THEN <<s[1].text>> \o ChunkTexts(Tail(s))
  ELSE ChunkTexts(Tail(s))

\* The request being handled has no usable input_as_text.
EmptyInput == req.input_as_text = <<>> \/ req.input_as_text = <<"">>

\* C1: every stream that was opened and closed holds exactly one terminal
\* sentinel, as its last event, on the success path and on every failure
\* path.
C1_SentinelOnEveryPath ==
  channel = "closed" =>
    /\ Cardinality(Positions("[DONE]")) = 1
    /\ stream[Len(stream)] = DONE

\* C2: after an exception of the engine (invocation, iteration or
\* completion) the closed stream ends with exactly one error event that
\* carries the message, followed by the terminal sentinel, and no
\* text_chunk or final event follows the error event.
C2_ErrorThenSentinel ==
  (channel = "closed" /\ caught # <<>>) =>
    /\ Cardinality(Positions("error")) = 1
    /\ Len(stream) >= 2
    /\ stream[Len(stream) - 1].type = "error"
    /\ caught[1].isError => stream[Len(stream) - 1].error = caught[1].message
    /\ stream[Len(stream)] = DONE

\* C3: a stream holds at most one final event; every text_chunk event comes
\* before it and every terminal sentinel after it, and a closed stream that
\* holds a final event ends with the sentinel.
C3_FinalOnceAfterChunks ==
  /\ Cardinality(Positions("final")) <= 1
  /\ \A f \in Positions("final") :
       /\ \A c \in Positions("text_chunk") : c < f
       /\ \A d \in Positions("[DONE]") : f < d
       /\ channel = "closed" => stream[Len(stream)] = DONE

\* C3 witness: a closed stream with two chunks, a final event and the sentinel.
C3_Witness ==
  /\ channel = "closed"
  /\ Cardinality(Positions("text_chunk")) = 2
  /\ Cardinality(Positions("final")) = 1
  /\ stream[Len(stream)] = DONE

\* C4: the texts of the text_chunk events are the engine's increments, one
\* event per increment, in order: always a prefix of the increments, equal
\* to the increments pulled so far while the consumer has not cancelled, and
\* equal to all increments once the loop is over.
C4_ChunksAreIncrements ==
  LET texts == ChunkTexts(stream)
  IN  /\ Len(texts) <= Len(engine.incs)
      /\ texts = SubSeq(engine.incs, 1, Len(texts))
      /\ channel # "cancelled" => texts = SubSeq(engine.incs, 1, consumed)
      /\ (channel # "cancelled" /\ pc \in {"completing", "final", "done", "catch", "finally", "end"})
           => texts = engine.incs

\* C4 witness: a closed stream that relayed two different increments.
C4_Witness ==
  /\ channel = "closed"
  /\ Len(engine.incs) = 2
  /\ engine.incs[1] # engine.incs[2]
  /\ ChunkTexts(stream) = engine.incs

\* C5: a request whose input_as_text is missing or empty is answered with
\* 400 and the error body; the engine is not invoked, no stream is opened
\* and no history is built or recorded for it.
C5_EmptyInputIs400 ==
  (nreq > 0 /\ req.kind = "object" /\ EmptyInput) =>
    /\ pc = "responded"
    /\ response.status = 400
    /\ response.body = [error |-> "input_as_text is required"]
    /\ engineInput = <<>>
    /\ channel = "none"
    /\ stream = <<>>
    /\ conversationHistory = <<>>

\* C5 witness: a request with an empty input_as_text, sent after a request
\* that completed, has been answered.
C5_Witness ==
  /\ nreq = 2
  /\ req.kind = "object"
  /\ req.input_as_text = <<"">>
  /\ response.status = 400
  /\ completed # NoneCompleted

\* C6: every malformed payload (a body that is no JSON, a body that is no
\* object) and every empty one is answered with 400, never with 500, and
\* opens no stream.
C6_MalformedIs400 ==
  (nreq > 0 /\ (req.kind # "object" \/ EmptyInput)) =>
    /\ response.status = 400
    /\ channel = "none"
    /\ engineInput = <<>>

\* C10: a request of session s that carries no history presents to the
\* engine the user messages of the requests of s that completed before it.
C10_ServerRemembersSession ==
  (engineInput # <<>> /\ req.history = <<>> /\ pc # "end") =>
    \A m \in completed[req.session_id] :
      \E i \in 1..(Len(engineInput[1]) - 1) : engineInput[1][i] = UserItem(m)

\* The supplied history of the request (empty when absent) and the entries
\* the engine should see: the history followed by the new user message.
SuppliedHistory == IF req.history = <<>> THEN <<>> ELSE req.history[1]
Merged == Append(SuppliedHistory, Msg("user", req.input_as_text[1]))
WellTyped == \A i \in 1..Len(SuppliedHistory) : SuppliedHistory[i].role \in {"user", "assistant"}
Min(a, b) == IF a < b THEN a ELSE b

\* The item the engine received at position i stands for the entry msg.
Presents(item, msg) ==
  /\ item.role = msg.role
  /\ Len(item.content) = 1
  /\ item.content[1].text = msg.content
  /\ item.content[1].type = (IF msg.role = "user" THEN "input_text" ELSE "output_text")

\* C7: for a history H of at most MAX_HISTORY_LENGTH entries the engine
\* input has min(len(H) + 1, MAX_HISTORY_LENGTH) entries, the last being
\* the new user message.
C7_LengthIsCapped ==
  (engineInput # <<>> /\ WellTyped /\ Len(SuppliedHistory) <= MAX_HISTORY_LENGTH) =>
    /\ Len(engineInput[1]) = Min(Len(SuppliedHistory) + 1, MAX_HISTORY_LENGTH)
    /\ Presents(engineInput[1][Len(engineInput[1])], Msg("user", req.input_as_text[1]))

\* C8: when the history with the new message is longer than
\* MAX_HISTORY_LENGTH, the engine input is its last MAX_HISTORY_LENGTH
\* entries.
C8_SuffixKept ==
  (engineInput # <<>> /\ WellTyped /\ Len(Merged) > MAX_HISTORY_LENGTH) =>
    /\ Len(engineInput[1]) = MAX_HISTORY_LENGTH
    /\ \A i \in 1..MAX_HISTORY_LENGTH :
         Presents(engineInput[1][i], Merged[Len(Merged) - MAX_HISTORY_LENGTH + i])

CurrentTurn == cpc \in {"awaiting", "reading"} /\ sent.session_id = <<sessionId>>

\* The texts of the user items and the number of assistant items of an
\* engine input.
RECURSIVE UserTextsOf(_)
UserTextsOf(items) ==
  IF items = <<>> THEN <<>>
  ELSE IF items[1].role = "user"
  THEN <<items[1].content[1].text>> \o UserTextsOf(Tail(items))
  ELSE UserTextsOf(Tail(items))
AssistantCount(items) ==
  Cardinality({i \in 1..Len(items) : items[i].role = "assistant"})

\* C11: when the panel has completed n successful exchanges in its session,
\* none that failed, and sends a new message, the engine input of that
\* request has 2n+1 entries: the n user/assistant pairs in order, then the
\* new user message.
C11_EngineInputHasAllPairs ==
  (CurrentTurn /\ engineInput # <<>> /\ badTurns = <<>>) =>
    /\ Len(engineInput[1]) = 2 * Len(okTurns) + 1
    /\ \A i \in 1..Len(okTurns) :
         /\ engineInput[1][2 * i - 1] = UserItem(okTurns[i])
         /\ engineInput[1][2 * i].role = "assistant"
    /\ engineInput[1][2 * Len(okTurns) + 1] = UserItem(sent.input_as_text[1])

\* The messages a request brings itself: its history and its new message.
OwnMessages ==
  {SuppliedHistory[i] : i \in 1..Len(SuppliedHistory)}
    \cup {Msg("user", req.input_as_text[1])}

C13_ErrorShowsFailureMessage ==
  (cpc = "idle" /\ phase = "ready" /\ nclear = 0
     /\ \E i \in 1..Len(received) : received[i].type = "error") =>
    /\ Len(messages) >= 2
    /\ messages[Len(messages)] = Msg("assistant", SorryText)
    /\ messages[Len(messages) - 1].role = "user"

\* C14: when turns of the session ended with a failed generation, and no
\* turn ended otherwise unsuccessfully, the engine input of the next
\* request holds the user messages of the successful turns and the new
\* message only, and one assistant entry for each successful turn.
C14_FailedTurnNotInHistory ==
  (CurrentTurn /\ engineInput # <<>> /\ badTurns # <<>>
     /\ \A i \in 1..Len(badTurns) : badTurns[i] = "generation failed") =>
    /\ UserTextsOf(engineInput[1]) = Append(okTurns, sent.input_as_text[1])
    /\ AssistantCount(engineInput[1]) = Len(okTurns)

\* C15: when no send is in flight and the transcript is not empty, the
\* chat_messages entry of localStorage reads back as a list equal to the
\* transcript.
C15_PersistedEqualsTranscript ==
  (phase = "ready" /\ cpc = "idle" /\ messages # <<>>) =>
    storage.chat_messages = <<messages>>

\* C15, second part: the mount effects never replace a non-empty persisted
\* transcript with an empty one or remove it.
MountKeepsTranscript ==
  [][(phase = "initial" /\ phase' = "hydrating"
        /\ storage.chat_messages # <<>> /\ storage.chat_messages[1] # <<>>)
       => storage'.chat_messages = storage.chat_messages]_vars

\* C16: a step that is no clearChat leaves a stored session id as it is;
\* every request in flight carries a session id that is not empty, and it
\* carries the stored one unless a clearChat came after it was sent; and
\* clearChat stores, and makes current, an id that was never generated
\* before.
C16_SessionIdStable ==
  [][/\ (nclear' = nclear /\ storage.chat_session_id # <<>>)
          => storage'.chat_session_id = storage.chat_session_id
     /\ cpc' # "idle"
          => /\ sent'.session_id # <<>>
             /\ sent'.session_id # <<"">>
             /\ nclear' = 0 => sent'.session_id = storage'.chat_session_id
     /\ (pc' \notin {"idle", "responded"} /\ nclear' = 0)
          => req'.session_id = storage'.chat_session_id
     /\ nclear' # nclear
          => /\ storage'.chat_session_id # storage.chat_session_id
             /\ storage'.chat_session_id \notin {<<Uuid(n)>> : n \in 0..uuids}
             /\ storage'.chat_session_id # <<"">>
             /\ sessionId' = storage'.chat_session_id[1]]_vars

\* C16 witness: after a reload the panel has sent a second request, and
\* both requests carried the id generated on the first mount.
C16_Witness ==
  /\ nreload = 1
  /\ nclear = 0
  /\ nsend = 2
  /\ cpc = "awaiting"
  /\ sent.session_id = <<Uuid(1)>>
  /\ storage.chat_session_id = <<Uuid(1)>>

\* C17: when the non-streaming handler has run the engine, an exception of
\* the engine and a final output that is absent or empty give status 500
\* with error "Internal server error" and the message as details, and a
\* response of status 200 carries an output_text that is not empty.
C17_NoUsableOutputIs500 ==
  (pc = "responded" /\ engineInput # <<>>) =>
    /\ (engine.failAt = "run" \/ engine.finalOutput \in {<<>>, <<"">>}) =>
         /\ response.status = 500
         /\ response.body.error = "Internal server error"
         /\ response.body.details =
              (IF engine.failAt # "run" THEN "Agent result is undefined"
               ELSE IF engine.thrown.isError THEN engine.thrown.message
               ELSE "Unknown error")
    /\ response.status = 200 => response.body.output_text # ""
    /\ response.status \in {200, 500}

\* C17 witness: the engine resolved with an empty final output and the
\* handler answered 500.
C17_Witness ==
  /\ pc = "responded"
  /\ engineInput # <<>>
  /\ engine.failAt = "none"
  /\ engine.finalOutput = <<"">>
  /\ response.status = 500

\* The three permissive CORS headers.
CorsHeaders == {AllowOrigin, AllowMethods, AllowHeaders}

\* C18: every response of the POST handler carries the three CORS headers,
\* and the OPTIONS response has status 200, no body and the three headers.
C18_EveryResponseHasCors ==
  /\ response # NoResponse => CorsHeaders \subseteq response.headers
  /\ optionsResponse # NoResponse =>
       /\ optionsResponse.status = 200
       /\ optionsResponse.body = [empty |-> TRUE]
       /\ CorsHeaders \subseteq optionsResponse.headers

\* C19: when start() has ended, the channel is released, no exception has
\* left the try/catch/finally, and the relay pulled at most one increment
\* that it could not enqueue.
C19_ReleasedOnceNoEscape ==
  pc = "end" =>
    /\ channel \in {"closed", "cancelled"}
    /\ ~escaped
    /\ consumed <= Len(ChunkTexts(stream)) + 1

\* C20: a read whose events, with those handled before, are all text_chunk
\* events leaves the length of the transcript as it was, and the message at
\* the tracked index is the assistant message whose content is the
\* concatenation of the chunk texts handled so far.
C20_ChunkReplacesTracked ==
  [][(cpc = "reading" /\ cpc' = "reading" /\ Len(received') > Len(received)
        /\ \A i \in 1..Len(received') : received'[i].type = "text_chunk")
       => /\ Len(messages') = Len(messages)
          /\ assistantMessageIndex + 1 <= Len(messages')
          /\ messages'[assistantMessageIndex + 1] =
               Msg("assistant", Concat(ChunkTexts(received')))]_vars

\* The non-empty texts of the final events among the events handled.
RECURSIVE FinalTexts(_)
FinalTexts(events) ==
  IF events = <<>> THEN <<>>
  ELSE IF events[1].type = "final" /\ events[1].output_text # ""
  THEN <<events[1].output_text>> \o FinalTexts(Tail(events))
  ELSE FinalTexts(Tail(events))

\* The text the reply should show for the events handled: the text of the
\* final event when one with a text came, else the chunk texts in order.
ReplyText(events) ==
  IF FinalTexts(events) # <<>> THEN FinalTexts(events)[Len(FinalTexts(events))]
  ELSE Concat(ChunkTexts(events))

\* The step in which a send ends with the stream read to its end.
StreamEnds == outcome = "none" /\ outcome' = "done"

C22_NoBlankAssistantMessage ==
  (cpc = "idle" /\ outcome # "none" /\ nclear = 0) =>
    /\ \A i \in 1..Len(messages) :
         messages[i].role = "assistant" => messages[i].content # ""
    /\ (outcome = "done" /\ fullText = "") =>
         /\ assistantMessageIndex + 1 <= Len(messages)
         /\ messages[assistantMessageIndex + 1] = Msg("assistant", NoResponseText)

OfType(events, t) == SelectSeq(events, LAMBDA e : e.type = t)

\* The handler ran to the end of its try block: nothing was caught and the
\* statement after the sentinel's enqueue has been reached.
SuccessPath == pc \in {"finally", "end"} /\ caught = <<>>

\* C24: on the success path the stream holds a final event exactly when the
\* engine's final output is non-empty, and it ends with the one sentinel
\* whether or not a final event was written.
C24_FinalIffOutputSentinelAlways ==
  SuccessPath =>
    /\ OfType(stream, "final") =
         (IF engine.finalOutput # "" THEN <<Final(engine.finalOutput)>> ELSE <<>>)
    /\ OfType(stream, "[DONE]") = <<DONE>>
    /\ stream[Len(stream)] = DONE

C24_Witness ==
  /\ SuccessPath
  /\ pc = "end"
  /\ engine.finalOutput = ""
  /\ stream = <<TextChunk("a"), TextChunk("b"), DONE>>

\* The accumulator after the events of the whole response body, each
\* arriving whole.
WholeText ==
  HandleLines(stream, "", messages, assistantMessageIndex).fullText

\* C25: when the stream has been read to its end, however it was split into
\* reads, the accumulator is what the events give when each arrives whole,
\* and the panel that still shows the conversation displays that text.
C25_FragmentationIndependent ==
  [][StreamEnds
       => /\ fullText = WholeText
          /\ sent.session_id = <<sessionId>>
               => /\ assistantMessageIndex + 1 <= Len(messages')
                  /\ messages'[assistantMessageIndex + 1] =
                       Msg("assistant",
                           IF WholeText = "" THEN NoResponseText ELSE WholeText)]_vars

\* The positions of a transcript that hold a message with the given role.
WithRole(msgs, r) == {i \in 1..Len(msgs) : msgs[i].role = r}

C27_IndexDesignatesPlaceholder ==
  (cpc = "reading" /\ phase = "ready") =>
    /\ assistantMessageIndex >= 1
    /\ assistantMessageIndex + 1 <= Len(messages)
    /\ messages[assistantMessageIndex + 1].role = "assistant"
    /\ messages[assistantMessageIndex] = Msg("user", sent.input_as_text[1])

\* A sequence of well-formed messages.
WellFormed(msgs) ==
  \A i \in 1..Len(msgs) : msgs[i].role \in {"user", "assistant"}

\* C28: after clearChat every element of the transcript and of the
\* persisted transcript is a message with role user or assistant, and until
\* a message is sent in the new conversation both are empty.
C28_ClearChatStartsClean ==
  (nclear > 0 /\ nreload = 0) =>
    /\ WellFormed(messages)
    /\ storage.chat_messages # <<>> => WellFormed(storage.chat_messages[1])
    /\ sent.session_id # <<sessionId>>
         => messages = <<>> /\ storage.chat_messages = <<>>

\* A transcript that alternates user, assistant, starting with user.
Alternates(msgs) ==
  \A i \in 1..Len(msgs) :
    msgs[i].role = (IF i % 2 = 1 THEN "user" ELSE "assistant")

\* C29: when every accepted send has finished, in a conversation that was
\* neither cleared nor reloaded, the transcript holds one user and one
\* assistant message for each send, alternating.
C29_OnePairPerSend ==
  (cpc = "idle" /\ nclear = 0 /\ nreload = 0) =>
    /\ Len(messages) = 2 * nsend
    /\ Alternates(messages)

\* C30: the loading flag is true while a request is pending, and whenever
\* it is true it is false again later.
C30_LoadingFlagTracksRequest ==
  /\ [](cpc # "idle" => isLoading)
  /\ [](isLoading => <>(~isLoading))

====
